---- MODULE Spec2Model ----
(***************************************************************************)
(* Engagement lifecycle of the marketplace: Post -> Bid -> Project ->      *)
(* Payment -> Feedback, as driven by the route actions of the application. *)
(* Every action below is one HTTP request handled start to finish; the     *)
(* store rows are kept in creation order, a row's id being its index.      *)
(***************************************************************************)
EXTENDS Integers, Sequences, FiniteSets, TLC

\* ---------------------------------------------------------------- bounds
\* rows the store may hold in all its tables together
MaxRows == 4
\* the same for the bidding-side specification
MaxBidRows == 4
\* the posts of the post-creation specification
MaxPostRows == 3
\* the rows of the card specification
MaxCardRows == 4
\* the documents of the document specification
MaxDocs == 3
\* the documents of the storage-address specification
MaxS3Docs == 2
\* the requests that may be in flight at the same time
MaxTasks == 2
\* the rows of the project-page specification
MaxPageRows == 5
\* the documents of the upload specification
MaxUploads == 2
\* the rows of the three account tables together
MaxAccounts == 3

\* ------------------------------------------------------------ principals
Customers == {"c1", "c2"}
Editors == {"e1", "e2"}
Principals == Customers \cup Editors
NoUser == "anonymous"
NoId == 0

\* ---------------------------------------------------------- form inputs
Intents == {"approve", "decline", "other"}
Texts == {"", "x"}
Ratings == {0, 3, 6}
Amounts == {1, 2}
\* what the budget and duration fields of the post form hold: nothing or a
\* positive number; in PostNumberTexts also zero and a negative number
NumberTexts == {"", "5"}
PostNumberTexts == {"", "0", "-5", "5"}
\* the prices editors type into the bid form of the project-page specification
PriceTexts == {"5", "7"}
\* the card fields of the payment form, each text a sequence of characters:
\* a well-formed card, one with a short number, one with month 13, one with
\* a short CVV, and a form with no card fields at all
Digits == {"0", "1", "2", "3", "4", "5", "6", "7", "8", "9"}
goodCard ==
    [cardHolderName |-> <<"x">>,
     cardNumber |-> <<"1", "2", "3", "4", "5", "6", "7", "8", "9", "1", "2", "3", "4",
                      "5", "6", "7">>,
     cardExpiry |-> <<"1", "2", "/", "2", "6">>,
     cardCvv |-> <<"1", "2", "3">>]
Cards ==
    {goodCard,
     [goodCard EXCEPT !.cardNumber = <<"1", "2", "3", "4">>],
     [goodCard EXCEPT !.cardExpiry = <<"1", "3", "/", "2", "6">>],
     [goodCard EXCEPT !.cardCvv = <<"1", "2">>],
     [cardHolderName |-> <<>>, cardNumber |-> <<>>, cardExpiry |-> <<>>, cardCvv |-> <<>>]}


VARIABLES posts, bids, projects, payments, feedbacks, lastReq, documents, tasks,
          upload, objects, accounts, sessions

vars == <<posts, bids, projects, payments, feedbacks, lastReq, documents, tasks,
          upload, objects, accounts, sessions>>

\* the browser's upload in progress and the objects in storage
\* the account tables and the sessions handed out
auth == <<accounts, sessions>>

web == <<upload, objects, auth>>

\* UserRole
Roles == {"admin", "customer", "editor"}

\* bcrypt: a hash matches the password it was made from and no other
bcryptHash(password) == [hash |-> password]

bcryptCompare(password, hashed) == hashed = bcryptHash(password)

\* passwords of 8 characters and one that is too short
pw1 == <<"p", "a", "s", "s", "w", "o", "r", "d">>
pw2 == <<"p", "a", "s", "s", "w", "o", "r", "t">>
pwShort == <<"p">>

\* the account tables before anybody registers: administrators are seeded,
\* there is no way to register one
seedAccounts ==
    [admin |-> <<[email |-> "a@x", password |-> bcryptHash(pw1)]>>,
     customer |-> <<>>,
     editor |-> <<>>]

\* what the handlers of the engagement lifecycle never touch
aux == <<documents, tasks, web>>

\* a request in flight: the handler it runs, the store call it has reached,
\* its session user and form fields, what it has read and how it ended;
\* overlap tells whether another request was in flight when it arrived
noUpload == [pc |-> "idle", key |-> <<>>, extension |-> ""]
Tasks == 1..MaxTasks
idleTask ==
    [op |-> "none", pc |-> "idle", user |-> NoUser, postId |-> NoId, bidId |-> NoId,
     editorId |-> "null", projectId |-> NoId, seen |-> 0, outcome |-> "none",
     at |-> "none", amount |-> 0, overlap |-> FALSE]

\* ------------------------------------------------------------- helpers
\* requireUserId: a request without a session user is redirected to /login
requireUserId(user) == user # NoUser

\* db.<table>.findUnique / update "where id": the row exists
bidExists(id) == id \in DOMAIN bids
projectExists(id) == id \in DOMAIN projects

\* the bids of a post; the approved ones
bidsOf(postId) == {b \in DOMAIN bids : bids[b].postId = postId}
approvedBidsOf(postId) == {b \in bidsOf(postId) : bids[b].approved}

\* post.project (a list relation): the projects of a post
projectsOf(postId) == {p \in DOMAIN projects : projects[p].postId = postId}

\* project.payment (an optional one-to-one relation)
paymentsOf(projectId) == {i \in DOMAIN payments : payments[i].projectId = projectId}
hasPayment(projectId) == paymentsOf(projectId) # {}

\* project.feedback (a list relation)
feedbackOf(projectId) == {i \in DOMAIN feedbacks : feedbacks[i].projectId = projectId}

\* the request just handled and its outcome:
\*   ok            the handler ran to its success response
\*   login         requireUserId threw the redirect to /login
\*   invalid       the form failed validation (badRequest / success:false)
\*   not_found, unauthorized, conflict   the handler's own refusals
\*   RecordNotFound, UniqueViolation     the store threw and nothing caught it
\* ids the outcome does not depend on are recorded as NoId; card tells, for a
\* payment request, whether the card fields it carried were well-formed
Req(op, user, outcome, postId, bidId, projectId) ==
    [op |-> op, user |-> user, outcome |-> outcome, postId |-> postId,
     bidId |-> bidId, projectId |-> projectId, card |-> "none"]

\* ------------------------------------------------------------------ Init
Init ==
    /\ posts = <<>>
    /\ bids = <<>>
    /\ projects = <<>>
    /\ payments = <<>>
    /\ feedbacks = <<>>
    /\ documents = <<>>
    /\ tasks = [t \in Tasks |-> idleTask]
    /\ upload = noUpload
    /\ objects = {}
    /\ accounts = seedAccounts
    /\ sessions = {}
    /\ lastReq = Req("none", NoUser, "ok", NoId, NoId, NoId)

\* ------------------------------------------------------------ createPost
\* CreatePostSchema: title, description, budget, duration are z.string().min(1)
CreatePostSchema(title, description, budget, duration) ==
    /\ title # ""
    /\ description # ""
    /\ budget # ""
    /\ duration # ""

\* Number(s) of JavaScript on the texts the forms hold
Number(s) ==
    CASE s = "5" -> 5
      [] s = "7" -> 7
      [] s = "-5" -> 0 - 5
      [] s = "0" -> 0
      [] s = "" -> 0

createPost(user, title, description, budget, duration) ==
    /\ UNCHANGED <<bids, projects, payments, feedbacks>>
    /\ IF ~requireUserId(user)
       THEN /\ lastReq' = Req("createPost", user, "login", NoId, NoId, NoId)
            /\ UNCHANGED posts
       ELSE IF ~CreatePostSchema(title, description, budget, duration)
       THEN /\ lastReq' = Req("createPost", user, "invalid", NoId, NoId, NoId)
            /\ UNCHANGED posts
       ELSE /\ posts' = Append(posts, [title |-> title, description |-> description,
                                      budget |-> Number(budget),
                                      duration |-> Number(duration),
                                      status |-> "open", customerId |-> user])
            /\ lastReq' = Req("createPost", user, "ok", Len(posts) + 1, NoId, NoId)

\* ------------------------------------------------------------- submitBid
\* CreateBidSchema: price and comment are z.string().min(1)
CreateBidSchema(price, comment) ==
    /\ price # ""
    /\ comment # ""

\* the column default of Bid.approved and of Bid.declined
bidFlagDefault == FALSE

\* db.bid.create: approved and declined are not given and take their defaults
newBid(postId, editorId, price) ==
    [postId |-> postId, editorId |-> editorId, price |-> price,
     approved |-> bidFlagDefault, declined |-> bidFlagDefault]

submitBid(user, postId, price, comment) ==
    /\ UNCHANGED <<posts, projects, payments, feedbacks>>
    /\ IF ~requireUserId(user)
       THEN /\ lastReq' = Req("submitBid", user, "login", NoId, NoId, NoId)
            /\ UNCHANGED bids
       ELSE IF ~CreateBidSchema(price, comment)
       THEN /\ lastReq' = Req("submitBid", user, "invalid", NoId, NoId, NoId)
            /\ UNCHANGED bids
       ELSE /\ bids' = Append(bids, newBid(postId, user, Number(price)))
            /\ lastReq' = Req("submitBid", user, "ok", postId, Len(bids) + 1, NoId)

\* ------------------------------------------------------------- decideBid
\* intent = approve: three writes in a row, project create, post update,
\* bid update; the bid update throws when bidId names no row, after the
\* first two writes have been stored.
approve(user, postId, editorId, bidId) ==
    /\ projects' = Append(projects, [postId |-> postId, editorId |-> editorId,
                                      customerId |-> user, status |-> "in_progress"])
    /\ posts' = [posts EXCEPT ![postId].status = "in_progress"]
    /\ IF bidExists(bidId)
       THEN /\ bids' = [bids EXCEPT ![bidId].approved = TRUE, ![bidId].declined = FALSE]
            /\ lastReq' = Req("approve", user, "ok", postId, bidId, Len(projects) + 1)
       ELSE /\ UNCHANGED bids
            /\ lastReq' = Req("approve", user, "RecordNotFound", postId, bidId,
                              Len(projects) + 1)

\* decline that forgets to clear the approved flag
declineKeepsApproved(user, postId, editorId, bidId) ==
    /\ UNCHANGED <<posts, projects>>
    /\ IF bidExists(bidId)
       THEN /\ bids' = [bids EXCEPT ![bidId].declined = TRUE]
            /\ lastReq' = Req("decline", user, "ok", postId, bidId, NoId)
       ELSE /\ UNCHANGED bids
            /\ lastReq' = Req("decline", user, "RecordNotFound", postId, bidId, NoId)

decline(user, postId, editorId, bidId) ==
    /\ UNCHANGED <<posts, projects>>
    /\ IF bidExists(bidId)
       THEN /\ bids' = [bids EXCEPT ![bidId].approved = FALSE, ![bidId].declined = TRUE]
            /\ lastReq' = Req("decline", user, "ok", postId, bidId, NoId)
       ELSE /\ UNCHANGED bids
            /\ lastReq' = Req("decline", user, "RecordNotFound", postId, bidId, NoId)

decideBid(user, postId, editorId, bidId, intent) ==
    /\ UNCHANGED <<payments, feedbacks>>
    /\ IF ~requireUserId(user)
       THEN /\ lastReq' = Req(intent, user, "login", NoId, NoId, NoId)
            /\ UNCHANGED <<posts, bids, projects>>
       ELSE IF intent = "approve" THEN approve(user, postId, editorId, bidId)
       ELSE IF intent = "decline" THEN decline(user, postId, editorId, bidId)
       ELSE /\ lastReq' = Req(intent, user, "ok", NoId, NoId, NoId)
            /\ UNCHANGED <<posts, bids, projects>>

\* ------------------------------------------------------- completeProject
\* the session is never read: user is whoever sent the request
completeProject(user, projectId) ==
    /\ UNCHANGED <<posts, bids, payments, feedbacks>>
    /\ IF projectId = NoId
       THEN /\ lastReq' = Req("completeProject", user, "invalid", NoId, NoId, projectId)
            /\ UNCHANGED projects
       ELSE IF ~projectExists(projectId)
       THEN /\ lastReq' = Req("completeProject", user, "RecordNotFound", NoId, NoId,
                              projectId)
            /\ UNCHANGED projects
       ELSE /\ projects' = [projects EXCEPT ![projectId].status = "payment_pending"]
            /\ lastReq' = Req("completeProject", user, "ok", NoId, NoId, projectId)

\* --------------------------------------------------------------- payment
\* Project.payment is a one-to-one relation: a nested create for a project
\* that already has its Payment fails, and the nested write stores nothing.
\* a store without the one-to-one constraint
paymentCreateNeverFails(projectId) == FALSE

paymentCreateFails(projectId) == hasPayment(projectId)

\* paymentSchema: cardHolderName min(1), cardNumber length(16), cardExpiry
\* matching ^(0[1-9]|1[0-2])\/\d{2}$, cardCvv length(3)
paymentSchema(card) ==
    /\ Len(card.cardHolderName) >= 1
    /\ Len(card.cardNumber) = 16
    /\ Len(card.cardExpiry) = 5
    /\ \/ card.cardExpiry[1] = "0" /\ card.cardExpiry[2] \in Digits \ {"0"}
       \/ card.cardExpiry[1] = "1" /\ card.cardExpiry[2] \in {"0", "1", "2"}
    /\ card.cardExpiry[3] = "/"
    /\ card.cardExpiry[4] \in Digits
    /\ card.cardExpiry[5] \in Digits
    /\ Len(card.cardCvv) = 3

\* the payment request as recorded: the handler reads no card field
PaymentReq(user, outcome, postId, projectId, card) ==
    [Req("payment", user, outcome, postId, NoId, projectId)
       EXCEPT !.card = IF paymentSchema(card) THEN "valid" ELSE "invalid"]

\* payment that completes the Project but leaves the Post as it was
paymentWithoutPostUpdate(user, projectId, editorId, customerId, amount, card) ==
    /\ UNCHANGED <<bids, feedbacks, posts>>
    /\ IF ~projectExists(projectId)
       THEN /\ lastReq' = PaymentReq(user, "RecordNotFound", NoId, projectId, card)
            /\ UNCHANGED <<projects, payments>>
       ELSE IF paymentCreateFails(projectId)
       THEN /\ lastReq' = PaymentReq(user, "UniqueViolation", NoId, projectId, card)
            /\ UNCHANGED <<projects, payments>>
       ELSE /\ payments' = Append(payments, [projectId |-> projectId, editorId |-> editorId,
                                             customerId |-> customerId, amount |-> amount])
            /\ projects' = [projects EXCEPT ![projectId].status = "completed"]
            /\ lastReq' = PaymentReq(user, "ok", projects[projectId].postId, projectId,
                                     card)

payment(user, projectId, editorId, customerId, amount, card) ==
    /\ UNCHANGED <<bids, feedbacks>>
    /\ IF ~projectExists(projectId)
       THEN /\ lastReq' = PaymentReq(user, "RecordNotFound", NoId, projectId, card)
            /\ UNCHANGED <<posts, projects, payments>>
       ELSE IF paymentCreateFails(projectId)
       THEN /\ lastReq' = PaymentReq(user, "UniqueViolation", NoId, projectId, card)
            /\ UNCHANGED <<posts, projects, payments>>
       ELSE /\ payments' = Append(payments, [projectId |-> projectId, editorId |-> editorId,
                                             customerId |-> customerId, amount |-> amount])
            /\ projects' = [projects EXCEPT ![projectId].status = "completed"]
            /\ posts' = [posts EXCEPT ![projects[projectId].postId].status = "completed"]
            /\ lastReq' = PaymentReq(user, "ok", projects[projectId].postId, projectId,
                                     card)

\* -------------------------------------------------------------- feedback
\* feedbackSchema: rating is an integer in 1..5, comment and projectId non-empty
feedbackSchema(rating, comment, projectId) ==
    /\ rating >= 1
    /\ rating <= 5
    /\ comment # ""
    /\ projectId # NoId

\* feedback without the "already submitted" check
feedbackNoDuplicateCheck(user, projectId, rating, comment) ==
    /\ UNCHANGED <<posts, bids, projects, payments>>
    /\ IF ~requireUserId(user)
       THEN /\ lastReq' = Req("feedback", user, "login", NoId, NoId, NoId)
            /\ UNCHANGED feedbacks
       ELSE IF ~feedbackSchema(rating, comment, projectId)
       THEN /\ lastReq' = Req("feedback", user, "invalid", NoId, NoId, NoId)
            /\ UNCHANGED feedbacks
       ELSE IF ~projectExists(projectId)
       THEN /\ lastReq' = Req("feedback", user, "not_found", NoId, NoId, projectId)
            /\ UNCHANGED feedbacks
       ELSE IF projects[projectId].customerId # user
       THEN /\ lastReq' = Req("feedback", user, "unauthorized", NoId, NoId, projectId)
            /\ UNCHANGED feedbacks
       ELSE /\ feedbacks' = Append(feedbacks, [projectId |-> projectId, customerId |-> user,
                                               rating |-> rating])
            /\ lastReq' = Req("feedback", user, "ok", NoId, NoId, projectId)

\* feedback without the comparison of the session user with project.customerId
feedbackNoOwnerCheck(user, projectId, rating, comment) ==
    /\ UNCHANGED <<posts, bids, projects, payments>>
    /\ IF ~requireUserId(user)
       THEN /\ lastReq' = Req("feedback", user, "login", NoId, NoId, NoId)
            /\ UNCHANGED feedbacks
       ELSE IF ~feedbackSchema(rating, comment, projectId)
       THEN /\ lastReq' = Req("feedback", user, "invalid", NoId, NoId, NoId)
            /\ UNCHANGED feedbacks
       ELSE IF ~projectExists(projectId)
       THEN /\ lastReq' = Req("feedback", user, "not_found", NoId, NoId, projectId)
            /\ UNCHANGED feedbacks
       ELSE IF Cardinality(feedbackOf(projectId)) > 0
       THEN /\ lastReq' = Req("feedback", user, "conflict", NoId, NoId, projectId)
            /\ UNCHANGED feedbacks
       ELSE /\ feedbacks' = Append(feedbacks, [projectId |-> projectId, customerId |-> user,
                                               rating |-> rating])
            /\ lastReq' = Req("feedback", user, "ok", NoId, NoId, projectId)

feedback(user, projectId, rating, comment) ==
    /\ UNCHANGED <<posts, bids, projects, payments>>
    /\ IF ~requireUserId(user)
       THEN /\ lastReq' = Req("feedback", user, "login", NoId, NoId, NoId)
            /\ UNCHANGED feedbacks
       ELSE IF ~feedbackSchema(rating, comment, projectId)
       THEN /\ lastReq' = Req("feedback", user, "invalid", NoId, NoId, NoId)
            /\ UNCHANGED feedbacks
       ELSE IF ~projectExists(projectId)
       THEN /\ lastReq' = Req("feedback", user, "not_found", NoId, NoId, projectId)
            /\ UNCHANGED feedbacks
       ELSE IF projects[projectId].customerId # user
       THEN /\ lastReq' = Req("feedback", user, "unauthorized", NoId, NoId, projectId)
            /\ UNCHANGED feedbacks
       ELSE IF Cardinality(feedbackOf(projectId)) > 0
       THEN /\ lastReq' = Req("feedback", user, "conflict", NoId, NoId, projectId)
            /\ UNCHANGED feedbacks
       ELSE /\ feedbacks' = Append(feedbacks, [projectId |-> projectId, customerId |-> user,
                                               rating |-> rating])
            /\ lastReq' = Req("feedback", user, "ok", NoId, NoId, projectId)

\* ------------------------------------------------------------------ Next
\* The six handlers, one request at a time.  The posts are created by
\* customer c1, bid on by editor e1 and decided by c1 with the editorId the
\* post page puts in the form; completeProject, payment and feedback are
\* sent by any principal or by nobody.  Ids sent in a form name a row or no
\* row at all.  The payment form is filled in by the project page, which
\* sends the project's own customerId and editorId, with a well-formed card.  A request that would
\* take the store past its bound is not sent.
rows == Len(posts) + Len(bids) + Len(projects) + Len(payments) + Len(feedbacks)

CreatePostRequest ==
    /\ \E user \in {"c1", NoUser}, title \in Texts, description \in Texts,
          budget \in NumberTexts, duration \in NumberTexts :
          createPost(user, title, description, budget, duration)
    /\ rows' <= MaxRows
    /\ UNCHANGED aux

SubmitBidRequest ==
    /\ \E user \in {"e1", NoUser}, postId \in DOMAIN posts,
          price \in NumberTexts, comment \in Texts :
          submitBid(user, postId, price, comment)
    /\ rows' <= MaxRows
    /\ UNCHANGED aux

DecideBidRequest ==
    /\ \E user \in {"c1", NoUser}, postId \in DOMAIN posts,
          bidId \in 1..(Len(bids) + 1), intent \in Intents :
          decideBid(user, postId, "e1", bidId, intent)
    /\ rows' <= MaxRows
    /\ UNCHANGED aux

CompleteProjectRequest ==
    /\ \E user \in Principals \cup {NoUser}, projectId \in 0..(Len(projects) + 1) :
          completeProject(user, projectId)
    /\ UNCHANGED aux

PaymentRequest ==
    /\ \E user \in Principals \cup {NoUser}, projectId \in 1..(Len(projects) + 1),
          amount \in Amounts :
          payment(user, projectId,
                  IF projectExists(projectId) THEN projects[projectId].editorId ELSE "e1",
                  IF projectExists(projectId) THEN projects[projectId].customerId ELSE "c1",
                  amount, goodCard)
    /\ rows' <= MaxRows
    /\ UNCHANGED aux

FeedbackRequest ==
    /\ \E user \in Principals \cup {NoUser}, projectId \in 0..(Len(projects) + 1),
          rating \in Ratings, comment \in Texts :
          feedback(user, projectId, rating, comment)
    /\ rows' <= MaxRows
    /\ UNCHANGED aux

Next ==
    \/ CreatePostRequest
    \/ SubmitBidRequest
    \/ DecideBidRequest
    \/ CompleteProjectRequest
    \/ PaymentRequest
    \/ FeedbackRequest

Spec == Init /\ [][Next]_vars

\* The bidding side alone, with every customer and every editor in the
\* sessions and in the forms; a decision names a Bid that exists.
BidCreatePostRequest ==
    /\ \E user \in Customers \cup {NoUser}, title \in Texts, description \in Texts,
          budget \in NumberTexts, duration \in NumberTexts :
          createPost(user, title, description, budget, duration)
    /\ rows' <= MaxBidRows
    /\ UNCHANGED aux

BidSubmitBidRequest ==
    /\ \E user \in Editors \cup {NoUser}, postId \in DOMAIN posts,
          price \in NumberTexts, comment \in Texts :
          submitBid(user, postId, price, comment)
    /\ rows' <= MaxBidRows
    /\ UNCHANGED aux

BidDecideBidRequest ==
    /\ \E user \in Customers \cup {NoUser}, postId \in DOMAIN posts, editorId \in Editors,
          bidId \in DOMAIN bids, intent \in Intents :
          decideBid(user, postId, editorId, bidId, intent)
    /\ rows' <= MaxBidRows
    /\ UNCHANGED aux

NextBid ==
    \/ BidCreatePostRequest
    \/ BidSubmitBidRequest
    \/ BidDecideBidRequest

SpecBid == Init /\ [][NextBid]_vars

\* Post creation alone, with every customer in the session and with zero
\* and negative numbers among the texts typed into budget and duration.
PostCreatePostRequest ==
    /\ \E user \in Customers \cup {NoUser}, title \in Texts, description \in Texts,
          budget \in PostNumberTexts, duration \in PostNumberTexts :
          createPost(user, title, description, budget, duration)
    /\ Len(posts') <= MaxPostRows
    /\ UNCHANGED aux

NextPost == PostCreatePostRequest

SpecPost == Init /\ [][NextPost]_vars

\* The way to a payment alone (c1 posts, e1 bids, c1 decides), the payment
\* form carrying any of the Cards and sent by the owner or by nobody.
CardCreatePostRequest ==
    /\ createPost("c1", "x", "x", "5", "5")
    /\ rows' <= MaxCardRows
    /\ UNCHANGED aux

CardSubmitBidRequest ==
    /\ \E postId \in DOMAIN posts : submitBid("e1", postId, "5", "x")
    /\ rows' <= MaxCardRows
    /\ UNCHANGED aux

CardDecideBidRequest ==
    /\ \E postId \in DOMAIN posts, bidId \in DOMAIN bids, intent \in Intents :
          decideBid("c1", postId, "e1", bidId, intent)
    /\ rows' <= MaxCardRows
    /\ UNCHANGED aux

CardPaymentRequest ==
    /\ \E user \in {"c1", NoUser}, projectId \in 1..(Len(projects) + 1),
          amount \in Amounts, card \in Cards :
          payment(user, projectId,
                  IF projectExists(projectId) THEN projects[projectId].editorId ELSE "e1",
                  IF projectExists(projectId) THEN projects[projectId].customerId ELSE "c1",
                  amount, card)
    /\ rows' <= MaxCardRows
    /\ UNCHANGED aux

NextCard ==
    \/ CardCreatePostRequest
    \/ CardSubmitBidRequest
    \/ CardDecideBidRequest
    \/ CardPaymentRequest

SpecCard == Init /\ [][NextCard]_vars

\* ------------------------------------------------------------- documents
\* Texts that are taken apart or measured are sequences of characters.
Null == "null"
REGION == <<"u", "s", "-", "w", "e", "s", "t", "-", "2">>
BUCKET == <<"s", "3", "f", "r", "e", "e", "l", "a", "n", "c", "e">>
defaultS3UrlOptions == [bucket |-> BUCKET, region |-> REGION]

\* getS3Url that always takes the default bucket and region
getS3UrlIgnoringOptions(key, options) ==
    <<"h", "t", "t", "p", "s", ":", "/", "/">> \o defaultS3UrlOptions.bucket
    \o <<".", "s", "3", ".">> \o defaultS3UrlOptions.region
    \o <<".", "a", "m", "a", "z", "o", "n", "a", "w", "s", ".", "c", "o", "m", "/">>
    \o key

\* getS3Url: the options given override the defaults, field by field
getS3Url(key, options) ==
    LET merged == [f \in {"bucket", "region"} |->
                     IF f \in DOMAIN options THEN options[f] ELSE defaultS3UrlOptions[f]]
    IN  <<"h", "t", "t", "p", "s", ":", "/", "/">> \o merged.bucket
        \o <<".", "s", "3", ".">> \o merged.region
        \o <<".", "a", "m", "a", "z", "o", "n", "a", "w", "s", ".", "c", "o", "m", "/">>
        \o key

\* createFileEntrySchema: name min(3); key, bucket, extension, region and
\* postId min(1)
createFileEntrySchema(name, key, bucket, extension, region, postId) ==
    /\ Len(name) >= 3
    /\ Len(key) >= 1
    /\ Len(bucket) >= 1
    /\ extension # ""
    /\ Len(region) >= 1
    /\ postId # NoId

\* the action of the customer's project page
customerDocument(user, projectId, name, key, bucket, extension, region, postId) ==
    /\ UNCHANGED <<posts, bids, projects, payments, feedbacks>>
    /\ IF ~requireUserId(user)
       THEN /\ lastReq' = Req("customerDocument", user, "login", NoId, NoId, NoId)
            /\ UNCHANGED documents
       ELSE IF projectId = NoId
       THEN /\ lastReq' = Req("customerDocument", user, "redirect", NoId, NoId, NoId)
            /\ UNCHANGED documents
       ELSE IF ~createFileEntrySchema(name, key, bucket, extension, region, postId)
       THEN /\ lastReq' = Req("customerDocument", user, "invalid", NoId, NoId, NoId)
            /\ UNCHANGED documents
       ELSE /\ documents' = Append(documents,
                   [type |-> "SOURCE", customerId |-> user, editorId |-> Null,
                    projectId |-> projectId, key |-> key, bucket |-> bucket,
                    region |-> region,
                    imageUrl |-> getS3Url(key, [bucket |-> bucket, region |-> region])])
            /\ lastReq' = Req("customerDocument", user, "ok", postId, NoId, projectId)

\* the action of the editor's project page
editorDocument(user, projectId, name, key, bucket, extension, region, postId) ==
    /\ UNCHANGED <<posts, bids, projects, payments, feedbacks>>
    /\ IF ~requireUserId(user)
       THEN /\ lastReq' = Req("editorDocument", user, "login", NoId, NoId, NoId)
            /\ UNCHANGED documents
       ELSE IF projectId = NoId
       THEN /\ lastReq' = Req("editorDocument", user, "redirect", NoId, NoId, NoId)
            /\ UNCHANGED documents
       ELSE IF ~createFileEntrySchema(name, key, bucket, extension, region, postId)
       THEN /\ lastReq' = Req("editorDocument", user, "invalid", NoId, NoId, NoId)
            /\ UNCHANGED documents
       ELSE /\ documents' = Append(documents,
                   [type |-> "EDITED", customerId |-> Null, editorId |-> user,
                    projectId |-> projectId, key |-> key, bucket |-> bucket,
                    region |-> region,
                    imageUrl |-> getS3Url(key, [bucket |-> bucket, region |-> region])])
            /\ lastReq' = Req("editorDocument", user, "ok", postId, NoId, projectId)

\* the role a session carries is the kind of its principal
roleOf(user) ==
    IF user \in Customers THEN "customer"
    ELSE IF user \in Editors THEN "editor" ELSE Null

\* The store once c1 has posted, e1 has bid and c1 has approved the bid.
InitProject ==
    /\ posts = <<[title |-> "x", description |-> "x", budget |-> 5, duration |-> 5,
                  status |-> "in_progress", customerId |-> "c1"]>>
    /\ bids = <<[postId |-> 1, editorId |-> "e1", price |-> 5, approved |-> TRUE,
                 declined |-> FALSE]>>
    /\ projects = <<[postId |-> 1, editorId |-> "e1", customerId |-> "c1",
                     status |-> "in_progress"]>>
    /\ payments = <<>>
    /\ feedbacks = <<>>
    /\ documents = <<>>
    /\ tasks = [t \in Tasks |-> idleTask]
    /\ upload = noUpload
    /\ objects = {}
    /\ accounts = seedAccounts
    /\ sessions = {}
    /\ lastReq = Req("approve", "c1", "ok", 1, 1, 1)

\* Documents attached to that Project through either project page, by any
\* principal or by nobody, the file fields being those the page sends.
Names == {<<"a", "b">>, <<"a", "b", "c">>}

DocCustomerDocumentRequest ==
    /\ \E user \in Principals \cup {NoUser}, projectId \in DOMAIN projects, name \in Names :
          customerDocument(user, projectId, name, <<"k">>, BUCKET, "x", REGION,
                           projects[projectId].postId)
    /\ Len(documents') <= MaxDocs
    /\ UNCHANGED <<tasks, web>>

DocEditorDocumentRequest ==
    /\ \E user \in Principals \cup {NoUser}, projectId \in DOMAIN projects, name \in Names :
          editorDocument(user, projectId, name, <<"k">>, BUCKET, "x", REGION,
                         projects[projectId].postId)
    /\ Len(documents') <= MaxDocs
    /\ UNCHANGED <<tasks, web>>

NextDoc ==
    \/ DocCustomerDocumentRequest
    \/ DocEditorDocumentRequest

SpecDoc == InitProject /\ [][NextDoc]_vars

\* Reading an address back: every way to take url apart as
\* https://{bucket}.s3.{region}.amazonaws.com/{key} in which the bucket holds
\* no "/" and the region no "." and no "/".
parseS3Url(url) ==
    LET n == Len(url)
        cuts == {c \in (8..n) \X (8..n) :
                   /\ c[1] + 4 <= c[2]
                   /\ c[2] + 15 <= n
                   /\ SubSeq(url, 1, 8) = <<"h", "t", "t", "p", "s", ":", "/", "/">>
                   /\ SubSeq(url, c[1] + 1, c[1] + 4) = <<".", "s", "3", ".">>
                   /\ SubSeq(url, c[2] + 1, c[2] + 15)
                        = <<".", "a", "m", "a", "z", "o", "n", "a", "w", "s", ".", "c",
                            "o", "m", "/">>
                   /\ \A i \in 9..c[1] : url[i] # "/"
                   /\ \A i \in (c[1] + 5)..c[2] : url[i] \notin {".", "/"}}
    IN  {<<SubSeq(url, 9, c[1]), SubSeq(url, c[1] + 5, c[2]), SubSeq(url, c[2] + 16, n)>> :
           c \in cuts}

\* Documents attached by c1 through the customer's page with the file
\* fields any form may carry: empty ones, the application's own bucket and
\* region, a bucket name with dots, and a key that itself looks like the
\* tail of an address.
Keys ==
    {<<>>, <<"k">>,
     <<"x", ".", "s", "3", ".", "y", ".", "a", "m", "a", "z", "o", "n", "a", "w", "s", ".",
       "c", "o", "m", "/", "z">>}
Buckets == {<<>>, BUCKET, <<"a", ".", "s", "3", ".", "b">>}
Regions == {<<>>, REGION, <<"e", "u">>}

S3CustomerDocumentRequest ==
    /\ \E key \in Keys, bucket \in Buckets, region \in Regions :
          customerDocument("c1", 1, <<"a", "b", "c">>, key, bucket, "x", region, 1)
    /\ Len(documents') <= MaxS3Docs
    /\ UNCHANGED <<tasks, web>>

NextS3 == S3CustomerDocumentRequest

SpecS3 == InitProject /\ [][NextS3]_vars

\* ------------------------------------------------- requests in flight
\* The approve branch of decideBid, one store call at a time: the request
\* is received (session and form read), then project.create, post.update
\* and bid.update run in this order, other requests running in between.
approveReceive(t, user, postId, editorId, bidId) ==
    /\ tasks[t].pc = "idle"
    /\ UNCHANGED <<posts, bids, projects, payments, feedbacks, documents>>
    /\ IF ~requireUserId(user)
       THEN /\ tasks' = [tasks EXCEPT ![t].op = "approve", ![t].pc = "done",
                                      ![t].user = user, ![t].outcome = "login"]
            /\ lastReq' = Req("approve", user, "login", NoId, NoId, NoId)
       ELSE /\ tasks' = [tasks EXCEPT ![t].op = "approve", ![t].pc = "received",
                                      ![t].user = user, ![t].postId = postId,
                                      ![t].editorId = editorId, ![t].bidId = bidId]
            /\ UNCHANGED lastReq

\* project.create together with the bid update, as one write
approveProjectCreateWithBid(t) ==
    /\ tasks[t].op = "approve"
    /\ tasks[t].pc = "received"
    /\ projects' = Append(projects, [postId |-> tasks[t].postId,
                                      editorId |-> tasks[t].editorId,
                                      customerId |-> tasks[t].user,
                                      status |-> "in_progress"])
    /\ bids' = [bids EXCEPT ![tasks[t].bidId].approved = TRUE]
    /\ tasks' = [tasks EXCEPT ![t].pc = "projectCreated", ![t].projectId = Len(projects) + 1]
    /\ UNCHANGED <<posts, payments, feedbacks, documents, lastReq>>

approveProjectCreate(t) ==
    /\ tasks[t].op = "approve"
    /\ tasks[t].pc = "received"
    /\ projects' = Append(projects, [postId |-> tasks[t].postId,
                                      editorId |-> tasks[t].editorId,
                                      customerId |-> tasks[t].user,
                                      status |-> "in_progress"])
    /\ tasks' = [tasks EXCEPT ![t].pc = "projectCreated", ![t].projectId = Len(projects) + 1]
    /\ UNCHANGED <<posts, bids, payments, feedbacks, documents, lastReq>>

approvePostUpdate(t) ==
    /\ tasks[t].op = "approve"
    /\ tasks[t].pc = "projectCreated"
    /\ posts' = [posts EXCEPT ![tasks[t].postId].status = "in_progress"]
    /\ tasks' = [tasks EXCEPT ![t].pc = "postUpdated"]
    /\ UNCHANGED <<bids, projects, payments, feedbacks, documents, lastReq>>

\* bid.update that refuses once the Post has an approved Bid
approveBidUpdateOnce(t) ==
    /\ tasks[t].op = "approve"
    /\ tasks[t].pc = "postUpdated"
    /\ UNCHANGED <<posts, projects, payments, feedbacks, documents>>
    /\ IF bidExists(tasks[t].bidId) /\ approvedBidsOf(tasks[t].postId) = {}
       THEN /\ bids' = [bids EXCEPT ![tasks[t].bidId].approved = TRUE,
                                    ![tasks[t].bidId].declined = FALSE]
            /\ tasks' = [tasks EXCEPT ![t].pc = "done", ![t].outcome = "ok"]
            /\ lastReq' = Req("approve", tasks[t].user, "ok", tasks[t].postId,
                              tasks[t].bidId, tasks[t].projectId)
       ELSE /\ UNCHANGED bids
            /\ tasks' = [tasks EXCEPT ![t].pc = "done", ![t].outcome = "RecordNotFound"]
            /\ lastReq' = Req("approve", tasks[t].user, "RecordNotFound", tasks[t].postId,
                              tasks[t].bidId, tasks[t].projectId)

approveBidUpdate(t) ==
    /\ tasks[t].op = "approve"
    /\ tasks[t].pc = "postUpdated"
    /\ UNCHANGED <<posts, projects, payments, feedbacks, documents>>
    /\ IF bidExists(tasks[t].bidId)
       THEN /\ bids' = [bids EXCEPT ![tasks[t].bidId].approved = TRUE,
                                    ![tasks[t].bidId].declined = FALSE]
            /\ tasks' = [tasks EXCEPT ![t].pc = "done", ![t].outcome = "ok"]
            /\ lastReq' = Req("approve", tasks[t].user, "ok", tasks[t].postId,
                              tasks[t].bidId, tasks[t].projectId)
       ELSE /\ UNCHANGED bids
            /\ tasks' = [tasks EXCEPT ![t].pc = "done", ![t].outcome = "RecordNotFound"]
            /\ lastReq' = Req("approve", tasks[t].user, "RecordNotFound", tasks[t].postId,
                              tasks[t].bidId, tasks[t].projectId)

\* some other request has been received and has not ended
inFlight(t) == \E u \in Tasks \ {t} : tasks[u].pc \notin {"idle", "done", "stopped"}

\* /api/payment, received and then its one store call, the nested write
paymentReceive(t, user, projectId, editorId, customerId, amount) ==
    /\ tasks[t].pc = "idle"
    /\ tasks' = [tasks EXCEPT ![t].op = "payment", ![t].pc = "received", ![t].user = user,
                              ![t].projectId = projectId, ![t].editorId = editorId,
                              ![t].amount = amount, ![t].overlap = inFlight(t)]
    /\ UNCHANGED <<posts, bids, projects, payments, feedbacks, documents, lastReq>>

paymentWrite(t) ==
    /\ tasks[t].op = "payment"
    /\ tasks[t].pc = "received"
    /\ payment(tasks[t].user, tasks[t].projectId, tasks[t].editorId,
               IF projectExists(tasks[t].projectId)
               THEN projects[tasks[t].projectId].customerId ELSE "c1",
               tasks[t].amount, goodCard)
    /\ tasks' = [tasks EXCEPT ![t].pc = "done", ![t].outcome = lastReq'.outcome]
    /\ UNCHANGED documents

\* /api/feedback: received (session and form), then project.findUnique
\* with its feedback and the three refusals, then feedback.create
feedbackReceive(t, user, projectId, rating, comment) ==
    /\ tasks[t].pc = "idle"
    /\ UNCHANGED <<posts, bids, projects, payments, feedbacks, documents>>
    /\ IF ~requireUserId(user)
       THEN /\ tasks' = [tasks EXCEPT ![t].op = "feedback", ![t].pc = "done",
                                      ![t].user = user, ![t].outcome = "login"]
            /\ lastReq' = Req("feedback", user, "login", NoId, NoId, NoId)
       ELSE IF ~feedbackSchema(rating, comment, projectId)
       THEN /\ tasks' = [tasks EXCEPT ![t].op = "feedback", ![t].pc = "done",
                                      ![t].user = user, ![t].outcome = "invalid"]
            /\ lastReq' = Req("feedback", user, "invalid", NoId, NoId, NoId)
       ELSE /\ tasks' = [tasks EXCEPT ![t].op = "feedback", ![t].pc = "received",
                                      ![t].user = user, ![t].projectId = projectId,
                                      ![t].amount = rating, ![t].overlap = inFlight(t)]
            /\ UNCHANGED lastReq

feedbackRead(t) ==
    /\ tasks[t].op = "feedback"
    /\ tasks[t].pc = "received"
    /\ UNCHANGED <<posts, bids, projects, payments, feedbacks, documents>>
    /\ LET refusal ==
             IF ~projectExists(tasks[t].projectId) THEN "not_found"
             ELSE IF projects[tasks[t].projectId].customerId # tasks[t].user
             THEN "unauthorized"
             ELSE IF Cardinality(feedbackOf(tasks[t].projectId)) > 0 THEN "conflict"
             ELSE "none"
       IN  IF refusal # "none"
           THEN /\ tasks' = [tasks EXCEPT ![t].pc = "done", ![t].outcome = refusal]
                /\ lastReq' = Req("feedback", tasks[t].user, refusal, NoId, NoId,
                                  tasks[t].projectId)
           ELSE /\ tasks' = [tasks EXCEPT ![t].pc = "read",
                                          ![t].seen = Cardinality(feedbackOf(tasks[t].projectId))]
                /\ UNCHANGED lastReq

feedbackCreate(t) ==
    /\ tasks[t].op = "feedback"
    /\ tasks[t].pc = "read"
    /\ feedbacks' = Append(feedbacks, [projectId |-> tasks[t].projectId,
                                        customerId |-> tasks[t].user,
                                        rating |-> tasks[t].amount])
    /\ tasks' = [tasks EXCEPT ![t].pc = "done", ![t].outcome = "ok"]
    /\ lastReq' = Req("feedback", tasks[t].user, "ok", NoId, NoId, tasks[t].projectId)
    /\ UNCHANGED <<posts, bids, projects, payments, documents>>

\* a request that dies between two store calls (the connection drops, the
\* process is killed): what it has written stays written
stop(t) ==
    /\ tasks[t].pc \notin {"idle", "done", "stopped"}
    /\ tasks' = [tasks EXCEPT ![t].pc = "stopped", ![t].at = tasks[t].pc]
    /\ UNCHANGED <<posts, bids, projects, payments, feedbacks, documents, lastReq>>

\* The store once c1 has posted and e1 and e2 have each bid on the Post.
InitTwoBids ==
    /\ posts = <<[title |-> "x", description |-> "x", budget |-> 5, duration |-> 5,
                  status |-> "open", customerId |-> "c1"]>>
    /\ bids = <<newBid(1, "e1", 5), newBid(1, "e2", 7)>>
    /\ projects = <<>>
    /\ payments = <<>>
    /\ feedbacks = <<>>
    /\ documents = <<>>
    /\ tasks = [t \in Tasks |-> idleTask]
    /\ upload = noUpload
    /\ objects = {}
    /\ accounts = seedAccounts
    /\ sessions = {}
    /\ lastReq = Req("submitBid", "e2", "ok", 1, 2, NoId)

\* c1, or nobody, approves Bids of the Post from several tabs at once; the
\* form carries the Bid's id and its editor's.
ApproveReceive ==
    /\ \E t \in Tasks, user \in {"c1", NoUser}, bidId \in DOMAIN bids :
          approveReceive(t, user, bids[bidId].postId, bids[bidId].editorId, bidId)
    /\ UNCHANGED web

ApproveProjectCreate ==
    /\ \E t \in Tasks : approveProjectCreate(t)
    /\ UNCHANGED web

ApprovePostUpdate ==
    /\ \E t \in Tasks : approvePostUpdate(t)
    /\ UNCHANGED web

ApproveBidUpdate ==
    /\ \E t \in Tasks : approveBidUpdate(t)
    /\ UNCHANGED web

Stop ==
    /\ \E t \in Tasks : stop(t)
    /\ UNCHANGED web

NextApprove ==
    \/ ApproveReceive
    \/ ApproveProjectCreate
    \/ ApprovePostUpdate
    \/ ApproveBidUpdate
    \/ Stop

SpecApprove == InitTwoBids /\ [][NextApprove]_vars

\* Payment requests for the approved Project, sent by its customer or by
\* nobody from several tabs at once, the form filled in by the project page.
PaymentReceive ==
    /\ \E t \in Tasks, user \in {"c1", NoUser}, projectId \in 1..(Len(projects) + 1),
          amount \in Amounts :
          paymentReceive(t, user, projectId,
                         IF projectExists(projectId) THEN projects[projectId].editorId
                         ELSE "e1",
                         IF projectExists(projectId) THEN projects[projectId].customerId
                         ELSE "c1",
                         amount)
    /\ UNCHANGED web

PaymentWrite ==
    /\ \E t \in Tasks : paymentWrite(t)
    /\ UNCHANGED web

NextPayment ==
    \/ PaymentReceive
    \/ PaymentWrite
    \/ Stop

SpecPayment == InitProject /\ [][NextPayment]_vars

\* Feedback requests for the approved Project, sent by its customer, by
\* another customer or by nobody from several tabs at once.
FeedbackReceive ==
    /\ \E t \in Tasks, user \in Customers \cup {NoUser},
          projectId \in 0..(Len(projects) + 1), rating \in Ratings, comment \in Texts :
          feedbackReceive(t, user, projectId, rating, comment)
    /\ UNCHANGED web

FeedbackRead ==
    /\ \E t \in Tasks : feedbackRead(t)
    /\ UNCHANGED web

FeedbackCreate ==
    /\ \E t \in Tasks : feedbackCreate(t)
    /\ UNCHANGED web

NextFeedback ==
    \/ FeedbackReceive
    \/ FeedbackRead
    \/ FeedbackCreate
    \/ Stop

SpecFeedback == InitProject /\ [][NextFeedback]_vars

\* The customer's pages, used as they are offered: c1 posts, e1 and e2 bid
\* at their prices, c1 approves or declines a Bid with the form its row
\* carries, and pays a Project of its own through makePayment, which sends
\* the price of project.post.bids[0].  The bids come from an include
\* without an order, so bids[0] is any Bid of the Post.
PageCreatePostRequest ==
    /\ createPost("c1", "x", "x", "5", "5")
    /\ rows' <= MaxPageRows
    /\ UNCHANGED aux

PageSubmitBidRequest ==
    /\ \E user \in Editors, postId \in DOMAIN posts, price \in PriceTexts :
          submitBid(user, postId, price, "x")
    /\ rows' <= MaxPageRows
    /\ UNCHANGED aux

PageDecideBidRequest ==
    /\ \E bidId \in DOMAIN bids, intent \in {"approve", "decline"} :
          decideBid("c1", bids[bidId].postId, bids[bidId].editorId, bidId, intent)
    /\ rows' <= MaxPageRows
    /\ UNCHANGED aux

makePayment(user, projectId, bid) ==
    payment(user, projectId, projects[projectId].editorId, projects[projectId].customerId,
            bids[bid].price, goodCard)

PageMakePaymentRequest ==
    /\ \E projectId \in DOMAIN projects :
          /\ projects[projectId].customerId = "c1"
          /\ \E bid \in bidsOf(projects[projectId].postId) :
                makePayment("c1", projectId, bid)
    /\ rows' <= MaxPageRows
    /\ UNCHANGED aux

NextPage ==
    \/ PageCreatePostRequest
    \/ PageSubmitBidRequest
    \/ PageDecideBidRequest
    \/ PageMakePaymentRequest

SpecPage == Init /\ [][NextPage]_vars

\* ---------------------------------------------------------------- upload
\* encodeURIComponent on the characters keys are made of here: a space
\* becomes %20, letters and "-" stay
RECURSIVE encodeURIComponent(_)
encodeURIComponent(str) ==
    IF str = <<>> THEN <<>>
    ELSE (IF Head(str) = " " THEN <<"%", "2", "0">> ELSE <<Head(str)>>)
         \o encodeURIComponent(Tail(str))

\* handleFileUpload of the customer's project page, one await at a time:
\* the key is made from the file's name and the extension from its type
\* (empty for an unknown type), then GET /api/upload-s3-object, then PUT to
\* the signed address, then the form is submitted to the page's action;
\* an await that throws ends the upload in the catch.
startUpload(key, extension) ==
    /\ upload.pc \in {"idle", "done", "failed"}
    /\ upload' = [pc |-> "getSignedUrl", key |-> key, extension |-> extension]
    /\ UNCHANGED <<posts, bids, projects, payments, feedbacks, lastReq, documents, tasks,
                   objects, auth>>

getSignedUrl(result) ==
    /\ upload.pc = "getSignedUrl"
    /\ upload' = [upload EXCEPT !.pc = IF result = "ok" THEN "put" ELSE "failed"]
    /\ UNCHANGED <<posts, bids, projects, payments, feedbacks, lastReq, documents, tasks,
                   objects, auth>>

\* a PUT whose failure is swallowed
putObjectIgnoringFailure(result) ==
    /\ upload.pc = "put"
    /\ objects' = IF result = "ok" THEN objects \cup {encodeURIComponent(upload.key)}
                  ELSE objects
    /\ upload' = [upload EXCEPT !.pc = "submit"]
    /\ UNCHANGED <<posts, bids, projects, payments, feedbacks, lastReq, documents, tasks,
                   auth>>

\* the signed address was made for the encoded key
putObject(result) ==
    /\ upload.pc = "put"
    /\ objects' = IF result = "ok" THEN objects \cup {encodeURIComponent(upload.key)}
                  ELSE objects
    /\ upload' = [upload EXCEPT !.pc = IF result = "ok" THEN "submit" ELSE "failed"]
    /\ UNCHANGED <<posts, bids, projects, payments, feedbacks, lastReq, documents, tasks,
                   auth>>

submitDocument(user, projectId) ==
    /\ upload.pc = "submit"
    /\ customerDocument(user, projectId, <<"a", "b", "c">>, upload.key, BUCKET,
                        upload.extension, REGION, projects[projectId].postId)
    /\ upload' = [upload EXCEPT !.pc = "done"]
    /\ UNCHANGED <<tasks, objects, auth>>

\* c1 uploads files to the approved Project, one after the other; the
\* session may have ended by the time the form is submitted.
UploadKeys == {<<"k">>, <<"a", " ", "b">>}

StartUpload ==
    \E key \in UploadKeys, extension \in Texts : startUpload(key, extension)

GetSignedUrl ==
    \E result \in {"ok", "error"} : getSignedUrl(result)

PutObject ==
    \E result \in {"ok", "error"} : putObject(result)

SubmitDocument ==
    /\ \E user \in {"c1", NoUser} : submitDocument(user, 1)
    /\ Len(documents') <= MaxUploads

NextUpload ==
    \/ StartUpload
    \/ GetSignedUrl
    \/ PutObject
    \/ SubmitDocument

SpecUpload == InitProject /\ [][NextUpload]_vars

\* ---------------------------------------------------------------- sessions
\* z.string().email() and validateEmail, on the addresses tried here
validateEmail(email) == email # ""

\* the position of the row with this email, 0 when there is none
findUnique(table, email) ==
    IF \E i \in 1..Len(accounts[table]) : accounts[table][i].email = email
    THEN CHOOSE i \in 1..Len(accounts[table]) : accounts[table][i].email = email
    ELSE 0

\* the id of a row names its table: ids of different tables never coincide
userIdOf(table, i) == [table |-> table, n |-> i]

\* the null a verification returns
noAccount == userIdOf(Null, 0)

\* verifyCustomerLogin and verifyEditorLogin: the id of the row with this
\* email when the password matches its hash, null otherwise
verifyLogin(table, email, password) ==
    LET i == findUnique(table, email)
    IN  IF i = 0 THEN noAccount
        ELSE IF ~bcryptCompare(password, accounts[table][i].password) THEN noAccount
        ELSE userIdOf(table, i)

verifyCustomerLogin(email, password) == verifyLogin("customer", email, password)

verifyEditorLogin(email, password) == verifyLogin("editor", email, password)

verifyAdminLogin(email, password) == verifyLogin("admin", email, password)

\* createUserSession: the cookie carries the id and the role it is given
createUserSession(userId, role) ==
    sessions' = sessions \cup {[userId |-> userId, role |-> role]}

LoginSchema(email, password, role) ==
    /\ validateEmail(email)
    /\ Len(password) >= 8
    /\ role \in Roles

\* POST /login
login(email, password, role) ==
    /\ UNCHANGED <<posts, bids, projects, payments, feedbacks, documents, tasks, upload,
                   objects, accounts>>
    /\ IF ~LoginSchema(email, password, role)
       THEN /\ lastReq' = Req("login", NoUser, "invalid", NoId, NoId, NoId)
            /\ UNCHANGED sessions
       ELSE LET user == IF role = "admin" THEN verifyAdminLogin(email, password)
                        ELSE IF role = "customer" THEN verifyCustomerLogin(email, password)
                        ELSE verifyEditorLogin(email, password)
            IN  IF user = noAccount
                THEN /\ lastReq' = Req("login", NoUser, "badCredentials", NoId, NoId, NoId)
                     /\ UNCHANGED sessions
                ELSE /\ lastReq' = Req("login", NoUser, "ok", NoId, NoId, NoId)
                     /\ createUserSession(user, role)

\* createCustomer and createEditor: a row with the hashed password
createAccount(table, email, password) ==
    accounts' = [accounts EXCEPT
                    ![table] = Append(@, [email |-> email,
                                          password |-> bcryptHash(password)])]

RegisterSchema(required, email, password, confirmPassword, role) ==
    /\ required # ""
    /\ validateEmail(email)
    /\ Len(password) >= 8
    /\ Len(confirmPassword) >= 8
    /\ role \in Roles
    /\ password = confirmPassword

\* the registration action that validates with RegisterSchema: `required`
\* stands for firstName, lastName, dob, phoneNo and address
schemaRegister(required, email, password, confirmPassword, role) ==
    /\ UNCHANGED <<posts, bids, projects, payments, feedbacks, documents, tasks, upload,
                   objects>>
    /\ IF ~RegisterSchema(required, email, password, confirmPassword, role)
       THEN /\ lastReq' = Req("schemaRegister", NoUser, "invalid", NoId, NoId, NoId)
            /\ UNCHANGED auth
       ELSE IF role \in {"customer", "editor"}
       THEN IF findUnique(role, email) # 0
            THEN /\ lastReq' = Req("schemaRegister", NoUser, "exists", NoId, NoId, NoId)
                 /\ UNCHANGED auth
            ELSE /\ lastReq' = Req("schemaRegister", NoUser, "ok", NoId, NoId, NoId)
                 /\ createAccount(role, email, password)
                 /\ createUserSession(userIdOf(role, Len(accounts[role]) + 1), role)
       ELSE /\ lastReq' = Req("schemaRegister", NoUser, "invalid", NoId, NoId, NoId)
            /\ UNCHANGED auth

\* POST /register: `required` as above, `editorFields` stands for
\* experience, portfolio, skills and awards; every role other than
\* customer takes the editor's path and the role goes into the session as
\* it was sent
register(role, required, email, password, editorFields) ==
    /\ UNCHANGED <<posts, bids, projects, payments, feedbacks, documents, tasks, upload,
                   objects>>
    /\ IF \/ role = ""
          \/ required = ""
          \/ ~validateEmail(email)
          \/ Len(password) = 0
          \/ Len(password) < 8
       THEN /\ lastReq' = Req("register", NoUser, "invalid", NoId, NoId, NoId)
            /\ UNCHANGED auth
       ELSE IF role = "customer"
       THEN IF findUnique("customer", email) # 0
            THEN /\ lastReq' = Req("register", NoUser, "exists", NoId, NoId, NoId)
                 /\ UNCHANGED auth
            ELSE /\ lastReq' = Req("register", NoUser, "ok", NoId, NoId, NoId)
                 /\ createAccount("customer", email, password)
                 /\ createUserSession(userIdOf("customer", Len(accounts.customer) + 1), role)
       ELSE IF editorFields = ""
       THEN /\ lastReq' = Req("register", NoUser, "invalid", NoId, NoId, NoId)
            /\ UNCHANGED auth
       ELSE IF findUnique("editor", email) # 0
       THEN /\ lastReq' = Req("register", NoUser, "exists", NoId, NoId, NoId)
            /\ UNCHANGED auth
       ELSE /\ lastReq' = Req("register", NoUser, "ok", NoId, NoId, NoId)
            /\ createAccount("editor", email, password)
            /\ createUserSession(userIdOf("editor", Len(accounts.editor) + 1), role)

\* what visitors send
Emails == {"", "a@x", "b@x"}
Passwords == {pwShort, pw1, pw2}
RoleTexts == Roles \cup {""}

accountRows == Len(accounts.admin) + Len(accounts.customer) + Len(accounts.editor)

LoginRequest ==
    /\ \E email \in Emails, password \in Passwords, role \in RoleTexts :
            login(email, password, role)

SchemaRegisterRequest ==
    /\ \E required \in Texts, email \in Emails, password \in Passwords,
          confirmPassword \in Passwords, role \in RoleTexts :
            schemaRegister(required, email, password, confirmPassword, role)
    /\ accountRows' <= MaxAccounts

RegisterRequest ==
    /\ \E role \in RoleTexts, required \in Texts, email \in Emails,
          password \in Passwords, editorFields \in Texts :
            register(role, required, email, password, editorFields)
    /\ accountRows' <= MaxAccounts

NextSession ==
    \/ LoginRequest
    \/ SchemaRegisterRequest
    \/ RegisterRequest

SpecSession == Init /\ [][NextSession]_vars

\* ================================================================ claims
isDecision(r) == r.op \in {"approve", "decline"} /\ r.postId \in DOMAIN posts

\* C1: a Post is in_progress if and only if exactly one of its Bids is approved.
C1_InProgressIffOneApproved ==
    \A p \in DOMAIN posts :
        (posts[p].status = "in_progress") <=> (Cardinality(approvedBidsOf(p)) = 1)

\* C2: no Bid is approved and declined at once; a Bid just created by
\* submitBid has both flags false.
C2_ApprovedDeclinedExclusive ==
    /\ \A b \in DOMAIN bids : ~(bids[b].approved /\ bids[b].declined)
    /\ (lastReq.op = "submitBid" /\ lastReq.outcome = "ok")
          => (~bids[lastReq.bidId].approved /\ ~bids[lastReq.bidId].declined)

\* a Bid of a Post that has a Project was declined by the last request
C2_Witness ==
    /\ lastReq.op = "decline"
    /\ lastReq.outcome = "ok"
    /\ bids[lastReq.bidId].declined
    /\ projectsOf(bids[lastReq.bidId].postId) # {}

\* C3: a Post has at most one Project, and the Project's editor is the
\* editor of the Post's approved Bid.
C3_OneProjectOfApprovedEditor ==
    \A p \in DOMAIN posts :
        /\ Cardinality(projectsOf(p)) <= 1
        /\ \A j \in projectsOf(p) :
              \E b \in approvedBidsOf(p) : bids[b].editorId = projects[j].editorId

\* C4: a Project has a Payment if and only if its status is completed.
C4_PaymentIffCompleted ==
    \A j \in DOMAIN projects : hasPayment(j) <=> (projects[j].status = "completed")

feedbackCount(c, j) ==
    Cardinality({i \in DOMAIN feedbacks :
                    feedbacks[i].customerId = c /\ feedbacks[i].projectId = j})

C6_OneFeedbackPerPair ==
    /\ [](\A c \in Principals, j \in DOMAIN projects : feedbackCount(c, j) <= 1)
    /\ [][(/\ lastReq'.op = "feedback"
           /\ lastReq'.projectId \in DOMAIN projects
           /\ lastReq'.user = projects[lastReq'.projectId].customerId
           /\ feedbackOf(lastReq'.projectId) # {})
          => (lastReq'.outcome = "conflict" /\ feedbacks' = feedbacks)]_vars

\* the owning customer's second feedback request has just been refused
C6_Witness ==
    /\ lastReq.op = "feedback"
    /\ lastReq.outcome = "conflict"
    /\ lastReq.user = projects[lastReq.projectId].customerId
    /\ feedbackCount(lastReq.user, lastReq.projectId) = 1

\* C7: a decision sent by a customer who does not own the Post is refused as
\* unauthorized and changes no Bid, Post or Project.
C7_NonOwnerDecisionRejected ==
    [][(/\ isDecision(lastReq')
        /\ lastReq'.user # posts[lastReq'.postId].customerId)
       => (/\ lastReq'.outcome = "unauthorized"
           /\ UNCHANGED <<posts, bids, projects>>)]_vars

\* C8: once a Bid of a Post is approved, every later decision on that Post
\* is refused and changes nothing.
C8_DecisionAfterApprovalRejected ==
    [][(/\ isDecision(lastReq')
        /\ approvedBidsOf(lastReq'.postId) # {})
       => (/\ lastReq'.outcome # "ok"
           /\ UNCHANGED <<posts, bids, projects>>)]_vars

\* C9: submitBid creates a Bid only on a Post whose status is open.
C9_BidOnlyOnOpenPost ==
    [][(lastReq'.op = "submitBid" /\ Len(bids') > Len(bids))
       => posts[lastReq'.postId].status = "open"]_vars

\* C10: completeProject on a Project that is not in_progress leaves its
\* status as it was.
C10_MarkCompleteOnlyFromInProgress ==
    [][(/\ lastReq'.op = "completeProject"
        /\ lastReq'.projectId \in DOMAIN projects
        /\ projects[lastReq'.projectId].status # "in_progress")
       => projects'[lastReq'.projectId].status = projects[lastReq'.projectId].status]_vars

\* C11: a Project becomes completed only by a payment request received while
\* it is payment_pending, and a payment request on an in_progress Project is
\* refused and stores no Payment.
C11_CompletedOnlyFromPaymentPending ==
    [][/\ \A p \in DOMAIN projects :
             (projects'[p].status = "completed" /\ projects[p].status # "completed")
             => (/\ lastReq'.op = "payment"
                 /\ lastReq'.projectId = p
                 /\ projects[p].status = "payment_pending")
       /\ (/\ lastReq'.op = "payment"
           /\ lastReq'.projectId \in DOMAIN projects
           /\ projects[lastReq'.projectId].status = "in_progress")
          => (lastReq'.outcome # "ok" /\ payments' = payments)]_vars

\* C12: completeProject sent by anyone but the Project's editor is refused
\* and leaves the Project's status as it was.
C12_OnlyEditorMarksComplete ==
    [][(/\ lastReq'.op = "completeProject"
        /\ lastReq'.projectId \in DOMAIN projects
        /\ lastReq'.user # projects[lastReq'.projectId].editorId)
       => (/\ lastReq'.outcome # "ok"
           /\ projects' = projects)]_vars

\* C13: a payment request whose session user is not the Project's customer
\* is refused, stores no Payment and changes no Project or Post.
C13_OnlyOwnerCapturesPayment ==
    [][(/\ lastReq'.op = "payment"
        /\ lastReq'.projectId \in DOMAIN projects
        /\ lastReq'.user # projects[lastReq'.projectId].customerId)
       => (/\ lastReq'.outcome # "ok"
           /\ UNCHANGED <<payments, projects, posts>>)]_vars

\* C14: a payment request that succeeds leaves, in the very state it
\* produces, a Payment of the Project, the Project completed and its Post
\* completed; one that fails leaves all three tables as they were.
C14_PaymentAllOrNothing ==
    [][lastReq'.op = "payment"
       => IF lastReq'.outcome = "ok"
          THEN /\ Len(payments') = Len(payments) + 1
               /\ payments'[Len(payments')].projectId = lastReq'.projectId
               /\ projects'[lastReq'.projectId].status = "completed"
               /\ posts'[projects'[lastReq'.projectId].postId].status = "completed"
          ELSE UNCHANGED <<payments, projects, posts>>]_vars

C14_Witness ==
    /\ lastReq.op = "payment"
    /\ lastReq.outcome = "ok"
    /\ hasPayment(lastReq.projectId)
    /\ projects[lastReq.projectId].status = "completed"
    /\ posts[lastReq.postId].status = "completed"

\* C15: a Feedback row is created only for a Project that is completed and
\* has its Payment; a feedback request on an in_progress or payment_pending
\* Project is refused and creates no row.
C15_FeedbackOnlyAfterPayment ==
    [][/\ Len(feedbacks') > Len(feedbacks)
          => (/\ projects[lastReq'.projectId].status = "completed"
              /\ hasPayment(lastReq'.projectId))
       /\ (/\ lastReq'.op = "feedback"
           /\ lastReq'.projectId \in DOMAIN projects
           /\ projects[lastReq'.projectId].status \in {"in_progress", "payment_pending"})
          => (lastReq'.outcome # "ok" /\ feedbacks' = feedbacks)]_vars

\* C16: a feedback request whose session user is not the customer of the
\* Project it names, or that names no Project, fails and creates no row;
\* so every Feedback row carries the customerId of its Project.
C16_FeedbackByOwnerOnly ==
    /\ [](\A f \in DOMAIN feedbacks :
             /\ feedbacks[f].projectId \in DOMAIN projects
             /\ feedbacks[f].customerId = projects[feedbacks[f].projectId].customerId)
    /\ [][(/\ lastReq'.op = "feedback"
           /\ \/ lastReq'.projectId \notin DOMAIN projects
              \/ lastReq'.user # projects[lastReq'.projectId].customerId)
          => (/\ lastReq'.outcome # "ok"
              /\ feedbacks' = feedbacks)]_vars

C16_Witness ==
    /\ lastReq.op = "feedback"
    /\ lastReq.outcome = "unauthorized"
    /\ lastReq.user \in Customers
    /\ feedbackOf(lastReq.projectId) # {}

\* C17: createPost stores a Post, with status open, only when budget and
\* duration are positive and title and description are not empty.
C17_PostOnlyWithPositiveNumbers ==
    [][Len(posts') > Len(posts)
       => (/\ lastReq'.op = "createPost"
           /\ posts'[Len(posts')].status = "open"
           /\ posts'[Len(posts')].budget > 0
           /\ posts'[Len(posts')].duration > 0
           /\ posts'[Len(posts')].title # ""
           /\ posts'[Len(posts')].description # "")]_vars

\* C18: no two Bids have the same Post and the same editor.
C18_OneBidPerEditorPerPost ==
    \A a, b \in DOMAIN bids :
       (bids[a].postId = bids[b].postId /\ bids[a].editorId = bids[b].editorId)
       => a = b

\* C19: a request that carries no session user changes no stored row.
C19_NoSessionNoChange ==
    [][lastReq'.user = NoUser
       => UNCHANGED <<posts, bids, projects, payments, feedbacks>>]_vars

\* C20: a payment request whose card details are missing or malformed
\* creates no Payment and leaves every Project's status as it was.
C20_InvalidCardNoPayment ==
    [][(lastReq'.op = "payment" /\ lastReq'.card = "invalid")
       => (/\ lastReq'.outcome # "ok"
           /\ UNCHANGED <<payments, projects>>)]_vars

\* C21: a Document row is SOURCE exactly when the session that uploaded it
\* is a customer's and EDITED exactly when it is an editor's; the uploader is
\* the customerId of a SOURCE row and the editorId of an EDITED row.
C21_DocumentTypeFollowsRole ==
    [][Len(documents') > Len(documents)
       => LET d == documents'[Len(documents')]
              role == roleOf(lastReq'.user)
          IN  /\ d.type = "SOURCE" <=> role = "customer"
              /\ d.type = "EDITED" <=> role = "editor"
              /\ d.type = "SOURCE" => d.customerId = lastReq'.user
              /\ d.type = "EDITED" => d.editorId = lastReq'.user]_vars

\* C22: the address getS3Url builds from a key, a bucket and a region reads
\* back as exactly that key, bucket and region.
C22_S3UrlRoundTrip ==
    \A d \in DOMAIN documents :
       parseS3Url(documents[d].imageUrl)
         = {<<documents[d].bucket, documents[d].region, documents[d].key>>}

C22_Witness ==
    \E d \in DOMAIN documents :
       /\ documents[d].bucket = <<"a", ".", "s", "3", ".", "b">>
       /\ Len(documents[d].key) > 1
       /\ documents[d].imageUrl
            = getS3Url(documents[d].key,
                       [bucket |-> documents[d].bucket, region |-> documents[d].region])

\* C23: two approve requests for two different Bids of the same Post, their
\* store calls interleaved in any way, both run to their success response
\* and leave two approved Bids and two Projects of that Post.
C23_BothApprovesComplete ==
    \A t, u \in Tasks :
       (/\ t # u
        /\ tasks[t].op = "approve" /\ tasks[t].pc = "done" /\ tasks[t].outcome # "login"
        /\ tasks[u].op = "approve" /\ tasks[u].pc = "done" /\ tasks[u].outcome # "login"
        /\ tasks[t].postId = tasks[u].postId
        /\ tasks[t].bidId # tasks[u].bidId)
       => (/\ tasks[t].outcome = "ok"
           /\ tasks[u].outcome = "ok"
           /\ bids[tasks[t].bidId].approved
           /\ bids[tasks[u].bidId].approved
           /\ Cardinality(projectsOf(tasks[t].postId)) >= 2)

\* both done, the one that wrote its Project first being the last to finish
C23_Witness ==
    \E t, u \in Tasks :
       /\ tasks[t].pc = "done" /\ tasks[t].outcome = "ok"
       /\ tasks[u].pc = "done" /\ tasks[u].outcome = "ok"
       /\ tasks[t].bidId # tasks[u].bidId
       /\ tasks[t].projectId < tasks[u].projectId
       /\ lastReq.bidId = tasks[t].bidId
       /\ Cardinality(approvedBidsOf(tasks[t].postId)) = 2
       /\ Cardinality(projectsOf(tasks[t].postId)) = 2

\* C25: an approve request that dies after project.create or after
\* post.update, no other request having run, leaves a Project of the Post
\* and no approved Bid of it; after project.create alone the Post is still
\* open.
C25_ApproveStopsHalfway ==
    \A t \in Tasks :
       (/\ tasks[t].op = "approve"
        /\ tasks[t].pc = "stopped"
        /\ tasks[t].at \in {"projectCreated", "postUpdated"}
        /\ \A u \in Tasks \ {t} : tasks[u].pc = "idle" \/ tasks[u].outcome = "login")
       => (/\ tasks[t].projectId \in projectsOf(tasks[t].postId)
           /\ approvedBidsOf(tasks[t].postId) = {}
           /\ tasks[t].at = "projectCreated" => posts[tasks[t].postId].status = "open"
           /\ tasks[t].at = "postUpdated" => posts[tasks[t].postId].status = "in_progress")

C25_Witness ==
    \E t \in Tasks :
       /\ tasks[t].pc = "stopped"
       /\ tasks[t].at = "projectCreated"
       /\ projectsOf(tasks[t].postId) # {}
       /\ approvedBidsOf(tasks[t].postId) = {}
       /\ posts[tasks[t].postId].status = "open"

C27_OneFeedbackUnderConcurrency ==
    \A c \in Customers, j \in DOMAIN projects : feedbackCount(c, j) <= 1

\* C28: a Post's status only moves forward along open, in_progress,
\* completed: a completed Post stays completed and a Post that has left
\* open never is open again.
C28_PostStatusMovesForward ==
    [][\A p \in DOMAIN posts :
          /\ posts[p].status = "completed" => posts'[p].status = "completed"
          /\ posts[p].status # "open" => posts'[p].status # "open"]_vars

\* C29: the Payment stored through the customer's project page has the
\* price of an approved Bid of the Project's Post as its amount.
C29_AmountIsApprovedPrice ==
    [][(/\ lastReq'.op = "payment"
        /\ lastReq'.outcome = "ok"
        /\ approvedBidsOf(lastReq'.postId) # {})
       => \E b \in approvedBidsOf(lastReq'.postId) :
             payments'[Len(payments')].amount = bids[b].price]_vars

C30_SessionRoleNamesTable ==
    /\ [](\A s \in sessions :
            /\ s.role \in Roles
            /\ s.userId.table = s.role
            /\ s.userId.n \in 1..Len(accounts[s.role]))
    /\ [][(lastReq'.op = "login" /\ lastReq'.outcome # "ok")
          => sessions' = sessions]_vars
====
